---- MODULE Spec2Model ----
(***************************************************************************)
(* Model of tasksync's operation translation engine                        *)
(* (src/tasksync/translator.py) and of its on-modify hook                   *)
(* (src/tasksync/hooks.py).                                                 *)
(*                                                                         *)
(* A Python value that may be None is modelled as a sequence of length at  *)
(* most one: None is <<>> and a present value v is <<v>>.  A Python dict   *)
(* is a TLA+ record; "key in dict" is "key \in DOMAIN dict".  A call of    *)
(* a builder either returns a list of operations or raises.                *)
(***************************************************************************)
EXTENDS Integers, Sequences, FiniteSets, TLC

VARIABLES pc, op, old, new, store, result

vars == <<pc, op, old, new, store, result>>

----------------------------------------------------------------------------
(* Python's None and a present value *)

None == <<>>

Some(v) == <<v>>

(* str(x) of an optional string: str(None) is the text "None" *)
Str(x) == IF x = None THEN "None" ELSE x[1]

(* the empty dict *)
EmptyDict == [k \in {} |-> None]

----------------------------------------------------------------------------
(* Bounds of the model *)

NumDescriptions == 2

MaxTags == 1

(* Input domains *)

DescriptionPool == <<"buy milk", "call bob", "pay rent", "fix bike">>

Descriptions == {DescriptionPool[i] : i \in 1..NumDescriptions}

Labels == {"home", "work"}

RECURSIVE TagListsOfLen(_)
TagListsOfLen(n) ==
    IF n = 0 THEN {<<>>}
    ELSE {Append(t, l) : t \in TagListsOfLen(n - 1), l \in Labels}

NoRepeat(t) == \A i, j \in 1..Len(t) : i # j => t[i] # t[j]

TagLists == {t \in UNION {TagListsOfLen(n) : n \in 0..MaxTags} : NoRepeat(t)}

Priorities == {"L", "M", "H"}

ProjectNames == {"Work", "Travel"}

Statuses == {"PENDING", "COMPLETED", "DELETED"}

RemoteIds == {"7001"}

(* a UTC instant: day of the month and clock time *)
Days == {1, 2}

Hours == {0, 5, 9, 23}

Minutes == {0, 30}

Seconds == {0, 30}

Datetimes == [day : Days, hour : Hours, minute : Minutes, second : Seconds]

(* IANA zones with their (winter) offset from UTC in hours *)
Timezones == {"UTC", "Europe/Berlin", "America/New_York"}

UtcOffset(timezone) ==
    CASE timezone = "UTC" -> 0
      [] timezone = "Europe/Berlin" -> 1
      [] timezone = "America/New_York" -> -5

(* the k-th value uuid.uuid4() yields within one call of a builder: fresh,  *)
(* hence different from the values drawn before it                          *)
UuidPool == <<"uuid-a", "uuid-b", "uuid-c">>

uuid4(k) == UuidPool[k]

----------------------------------------------------------------------------
(* Lookup Store: store.find('projects', name=...) *)

ProjectId(name) ==
    CASE name = "Inbox" -> "100"
      [] name = "Work" -> "101"
      [] name = "Travel" -> "102"

Stores == {[n \in S |-> ProjectId(n)] : S \in SUBSET (ProjectNames \cup {"Inbox"})}

find(st, name) ==
    IF name \in DOMAIN st THEN Some([id |-> st[name], name |-> name]) ELSE None

----------------------------------------------------------------------------
(* Field Model: TaskwarriorPriority.to_todoist *)

to_todoist(priority) ==
    CASE priority = "L" -> 2
      [] priority = "M" -> 3
      [] priority = "H" -> 4

(* datetime.astimezone(ZoneInfo(timezone)) of a UTC instant *)
astimezone(date, timezone) ==
    LET h == date.hour + UtcOffset(timezone)
    IN  [day    |-> IF h < 0 THEN date.day - 1 ELSE IF h > 23 THEN date.day + 1 ELSE date.day,
         hour   |-> (h + 24) % 24,
         minute |-> date.minute,
         second |-> date.second]

(* date.strftime('%Y-%m-%d'): the calendar date of the instant as given *)
strftime_date(date) == [form |-> "date", text |-> <<date.day>>]

(* date.strftime(TODOIST_DATETIME_FORMAT): date and time with the Z suffix *)
strftime_datetime(date) ==
    [form |-> "datetimeZ", text |-> <<date.day, date.hour, date.minute, date.second>>]

date_from_taskwarrior(date, timezone) ==
    LET due_datetime == astimezone(date, timezone)
    IN  [timezone     |-> timezone,
         is_recurring |-> FALSE,
         date         |-> IF due_datetime.hour = 0 /\ due_datetime.minute = 0
                          THEN strftime_date(date)
                          ELSE strftime_datetime(date)]

----------------------------------------------------------------------------
(* Diff Rules *)

(* getattr(task, attr); the tag list is a list, never None *)
getattr(task, attr) == IF attr = "tags" THEN Some(task.tags) ELSE task[attr]

(* variant: a value set where none was before is not seen as an update *)
_check_update_needs_old(task_old, task_new, attr) ==
    LET oldval == getattr(task_old, attr)
        newval == getattr(task_new, attr)
    IN  newval # None /\ oldval # None /\ oldval # newval

_check_update(task_old, task_new, attr) ==
    LET oldval == getattr(task_old, attr)
        newval == getattr(task_new, attr)
    IN  newval # None /\ (oldval = None \/ oldval # newval)

(* variant: the two snapshots taken the wrong way round *)
_check_remove_swapped(task_old, task_new, attr) ==
    LET oldval == getattr(task_old, attr)
        newval == getattr(task_new, attr)
    IN  newval # None /\ oldval = None

_check_remove(task_old, task_new, attr) ==
    LET oldval == getattr(task_old, attr)
        newval == getattr(task_new, attr)
    IN  oldval # None /\ newval = None

----------------------------------------------------------------------------
(* Outcome of a call *)

Returned(ops) == [raised |-> FALSE, ops |-> ops]

Raised == [raised |-> TRUE, ops |-> <<>>]

(* d with key k set to v when cond holds *)
SetIf(cond, d, k, v) == IF cond THEN (k :> v) @@ d ELSE d

----------------------------------------------------------------------------
(* Operation Builders *)

create_project(name, temp_id) ==
    LET data == [type |-> "project_add",
                 uuid |-> uuid4(3),
                 args |-> [name |-> name]]
    IN  <<SetIf(temp_id # None, data, "temp_id", Str(temp_id))>>

(* variant: the label list is sent even when it is empty *)
add_item_labels_always(task, st) ==
    LET project == IF task.project # None THEN find(st, task.project[1]) ELSE None
        a0 == [content |-> task.description]
        a1 == SetIf(project # None, a0, "project_id", project[1].id)
        a2 == SetIf(task.due # None, a1, "due",
                    Some(date_from_taskwarrior(task.due[1], task.timezone)))
        a3 == SetIf(task.priority # None, a2, "priority", to_todoist(task.priority[1]))
        a4 == SetIf(TRUE, a3, "labels", task.tags)
        data == [type    |-> "item_add",
                 temp_id |-> uuid4(1),
                 uuid    |-> uuid4(2),
                 args    |-> a4]
    IN  Returned(<<data>>)

add_item(task, st) ==
    LET project == IF task.project # None THEN find(st, task.project[1]) ELSE None
        a0 == [content |-> task.description]
        a1 == SetIf(project # None, a0, "project_id", project[1].id)
        a2 == SetIf(task.due # None, a1, "due",
                    Some(date_from_taskwarrior(task.due[1], task.timezone)))
        a3 == SetIf(task.priority # None, a2, "priority", to_todoist(task.priority[1]))
        a4 == SetIf(Len(task.tags) > 0, a3, "labels", task.tags)
        data == [type    |-> "item_add",
                 temp_id |-> uuid4(1),
                 uuid    |-> uuid4(2),
                 args    |-> a4]
    IN  Returned(<<data>>)

update_item(task_old, task_new, st) ==
    LET a0 == EmptyDict
        a1 == SetIf(task_old.description # task_new.description, a0,
                    "content", task_new.description)
        a2 == IF _check_update(task_old, task_new, "due")
              THEN SetIf(TRUE, a1, "due",
                         Some(date_from_taskwarrior(task_new.due[1], task_new.timezone)))
              ELSE SetIf(_check_remove(task_old, task_new, "due"), a1, "due", None)
        a3 == IF _check_update(task_old, task_new, "priority")
              THEN SetIf(TRUE, a2, "priority", to_todoist(task_new.priority[1]))
              ELSE SetIf(_check_remove(task_old, task_new, "priority"), a2, "priority", 1)
        args == SetIf(_check_update(task_old, task_new, "tags"), a3, "labels", task_new.tags)
        data == [type |-> "item_update",
                 uuid |-> uuid4(1),
                 args |-> ("id" :> Str(task_new.todoist)) @@ args]
    IN  Returned(IF DOMAIN args # {} THEN <<data>> ELSE <<>>)

(* variant: the item_move is appended before the project_add it depends on *)
move_item_dependent_first(task_old, task_new, st) ==
    LET data == [type |-> "item_move",
                 uuid |-> uuid4(1),
                 args |-> [id |-> Str(task_new.todoist)]]
        WithProject(pid) == [data EXCEPT !.args = ("project_id" :> pid) @@ data.args]
    IN  IF _check_update(task_old, task_new, "project")
        THEN LET project == find(st, task_new.project[1])
             IN  IF project # None
                 THEN Returned(<<WithProject(project[1].id)>>)
                 ELSE LET ops == create_project(task_new.project[1], Some(uuid4(2)))
                      IN  Returned(<<WithProject(ops[Len(ops)].temp_id)>> \o ops)
        ELSE IF _check_remove(task_old, task_new, "project")
        THEN LET project == find(st, "Inbox")
             IN  IF project # None
                 THEN Returned(<<WithProject(project[1].id)>>)
                 ELSE Raised
        ELSE Returned(<<data>>)

(* variant: a missing Inbox is passed over instead of raised *)
move_item_inbox_skipped(task_old, task_new, st) ==
    LET data == [type |-> "item_move",
                 uuid |-> uuid4(1),
                 args |-> [id |-> Str(task_new.todoist)]]
        WithProject(pid) == [data EXCEPT !.args = ("project_id" :> pid) @@ data.args]
    IN  IF _check_update(task_old, task_new, "project")
        THEN LET project == find(st, task_new.project[1])
             IN  IF project # None
                 THEN Returned(<<WithProject(project[1].id)>>)
                 ELSE LET ops == create_project(task_new.project[1], Some(uuid4(2)))
                      IN  Returned(Append(ops, WithProject(ops[Len(ops)].temp_id)))
        ELSE IF _check_remove(task_old, task_new, "project")
        THEN LET project == find(st, "Inbox")
             IN  IF project # None
                 THEN Returned(<<WithProject(project[1].id)>>)
                 ELSE Returned(<<data>>)
        ELSE Returned(<<data>>)

move_item(task_old, task_new, st) ==
    LET data == [type |-> "item_move",
                 uuid |-> uuid4(1),
                 args |-> [id |-> Str(task_new.todoist)]]
        WithProject(pid) == [data EXCEPT !.args = ("project_id" :> pid) @@ data.args]
    IN  IF _check_update(task_old, task_new, "project")
        THEN LET project == find(st, task_new.project[1])
             IN  IF project # None
                 THEN Returned(<<WithProject(project[1].id)>>)
                 ELSE LET ops == create_project(task_new.project[1], Some(uuid4(2)))
                      IN  Returned(Append(ops, WithProject(ops[Len(ops)].temp_id)))
        ELSE IF _check_remove(task_old, task_new, "project")
        THEN LET project == find(st, "Inbox")
             IN  IF project # None
                 THEN Returned(<<WithProject(project[1].id)>>)
                 ELSE Raised
        ELSE Returned(<<data>>)

delete_item(task_old, task_new, st) ==
    IF task_old.status # "DELETED" /\ task_new.status = "DELETED"
    THEN Returned(<<[type |-> "item_delete",
                     uuid |-> uuid4(1),
                     args |-> [id |-> Str(task_new.todoist)]]>>)
    ELSE Returned(<<>>)

complete_item(task_old, task_new, st) ==
    IF task_old.status # "COMPLETED" /\ task_new.status = "COMPLETED"
    THEN LET data == [type |-> "item_complete",
                      uuid |-> uuid4(1),
                      args |-> [id |-> Str(task_new.todoist)]]
         IN  Returned(<<[data EXCEPT !.args =
                            SetIf(task_new.end # None, data.args, "date_completed",
                                  strftime_datetime(task_new.end[1]))]>>)
    ELSE Returned(<<>>)

uncomplete_item(task_old, task_new, st) ==
    IF task_old.status = "COMPLETED" /\ task_new.status # "COMPLETED"
    THEN Returned(<<[type |-> "item_uncomplete",
                     uuid |-> uuid4(1),
                     args |-> [id |-> Str(task_new.todoist)]]>>)
    ELSE Returned(<<>>)

----------------------------------------------------------------------------
(* Orchestration hook (src/tasksync/hooks.py) *)

(* TaskwarriorTask.to_todoist_api_kwargs: the fields the remote API takes *)
to_todoist_api_kwargs(task) ==
    LET k0 == [content |-> task.description, labels |-> task.tags]
        k1 == SetIf(task.todoist # None, k0, "task_id", task.todoist[1])
        k2 == SetIf(task.due # None, k1, "due",
                    Some(date_from_taskwarrior(task.due[1], task.timezone)))
    IN  SetIf(task.priority # None, k2, "priority", to_todoist(task.priority[1]))

(* dict.get(key, None), the value wrapped so that None compares with it *)
Get(d, key) == IF key \in DOMAIN d THEN Some(d[key]) ELSE None

check_supported_todoist_fields(task_input, task_output) ==
    LET task_input_kwargs == to_todoist_api_kwargs(task_input)
        task_output_kwargs == to_todoist_api_kwargs(task_output)
        keys_triggering_update == DOMAIN task_input_kwargs \cup DOMAIN task_output_kwargs
    IN  \E key \in keys_triggering_update :
            Get(task_input_kwargs, key) # Get(task_output_kwargs, key)

(* res_id: the id the remote service assigns; localzone: tzlocal's answer *)
on_modify(task_input, task_output, res_id, localzone) ==
    IF task_output.status = "DELETED" /\ task_output.todoist # None
    THEN [raised   |-> FALSE,
          ops      |-> <<[type |-> "delete_task", task_id |-> task_output.todoist[1]]>>,
          task     |-> task_output,
          feedback |-> "Todoist: task deleted"]
    ELSE IF check_supported_todoist_fields(task_input, task_output)
    THEN IF task_output.todoist # None
         THEN [raised   |-> FALSE,
               ops      |-> <<[type |-> "update_task", task_id |-> task_output.todoist[1]]>>,
               task     |-> task_output,
               feedback |-> "Todoist: task updated"]
         ELSE [raised   |-> FALSE,
               ops      |-> <<[type |-> "add_task"]>>,
               task     |-> [task_output EXCEPT !.todoist = Some(res_id),
                                                !.timezone = localzone],
               feedback |-> "Todoist: task created (did not exist)"]
    ELSE [raised   |-> FALSE,
          ops      |-> <<>>,
          task     |-> task_output,
          feedback |-> "Todoist: update not required"]

----------------------------------------------------------------------------
(* Task snapshots the callers hand in *)

Opt(S) == {None} \cup {Some(v) : v \in S}

DueValues == {[day |-> 1, hour |-> 0, minute |-> 0, second |-> 0],
              [day |-> 2, hour |-> 9, minute |-> 30, second |-> 0]}

EndValues == {[day |-> 2, hour |-> 9, minute |-> 0, second |-> 30]}

AssignedIds == {"7002"}

FirstDescription == DescriptionPool[1]

(* every field free *)
Snapshots ==
    [description : Descriptions, due : Opt(DueValues), timezone : {"UTC"},
     priority : Opt(Priorities), tags : TagLists, project : Opt(ProjectNames),
     status : Statuses, todoist : Opt(RemoteIds), end : Opt(EndValues)]

(* a snapshot with nothing but its description *)
Bare(description) ==
    [description |-> description, due |-> None, timezone |-> "UTC", priority |-> None,
     tags |-> <<>>, project |-> None, status |-> "PENDING", todoist |-> None,
     end |-> None]

NoCall == [raised |-> FALSE, ops |-> <<>>]

Start == pc = "input" /\ op = "none" /\ result = NoCall

(* Create Item: one snapshot, every field free, any store *)
InitAdd ==
    /\ new \in Snapshots
    /\ old = new
    /\ store \in Stores
    /\ Start

(* Update Item: the four diffed fields free on both sides, and at most one *)
(* of collection, status and completion timestamp changed beside them      *)
OtherChanges ==
    {<<[project |-> p[1], status |-> s[1], end |-> e[1]],
       [project |-> p[2], status |-> s[2], end |-> e[2]]>> :
        p \in {<<None, None>>}, s \in {<<"PENDING", "PENDING">>}, e \in {<<None, None>>}}
    \cup
    {<<[project |-> p1, status |-> "PENDING", end |-> None],
       [project |-> p2, status |-> "PENDING", end |-> None]>> :
        p1 \in Opt(ProjectNames), p2 \in Opt(ProjectNames)}
    \cup
    {<<[project |-> None, status |-> s1, end |-> e1],
       [project |-> None, status |-> s2, end |-> e2]>> :
        s1 \in {"PENDING"}, s2 \in Statuses, e1 \in {None}, e2 \in Opt(EndValues)}

InitUpdate ==
    /\ \E d1, d2 \in Descriptions, due1, due2 \in Opt(DueValues),
          p1, p2 \in Opt(Priorities), t1, t2 \in TagLists,
          id \in Opt(RemoteIds), oc \in OtherChanges :
          /\ old = [description |-> d1, due |-> due1, timezone |-> "UTC",
                    priority |-> p1, tags |-> t1, project |-> oc[1].project,
                    status |-> oc[1].status, todoist |-> id, end |-> oc[1].end]
          /\ new = [description |-> d2, due |-> due2, timezone |-> "UTC",
                    priority |-> p2, tags |-> t2, project |-> oc[2].project,
                    status |-> oc[2].status, todoist |-> id, end |-> oc[2].end]
    /\ store \in {[n \in {"Inbox"} |-> ProjectId(n)]}
    /\ Start

(* Move Item: collection and description free on both sides, any store *)
InitMove ==
    /\ \E d1, d2 \in Descriptions, p1, p2 \in Opt(ProjectNames), id \in Opt(RemoteIds) :
          /\ old = [Bare(d1) EXCEPT !.project = p1, !.todoist = id]
          /\ new = [Bare(d2) EXCEPT !.project = p2, !.todoist = id]
    /\ store \in Stores
    /\ Start

(* Delete / Complete / Uncomplete: status and completion timestamp free *)
InitStatus ==
    /\ \E s1, s2 \in Statuses, e1, e2 \in Opt(EndValues), id \in Opt(RemoteIds) :
          /\ old = [Bare(FirstDescription) EXCEPT !.status = s1, !.end = e1, !.todoist = id]
          /\ new = [Bare(FirstDescription) EXCEPT !.status = s2, !.end = e2, !.todoist = id]
    /\ store \in {[n \in {"Inbox"} |-> ProjectId(n)]}
    /\ Start

(* on-modify hook: status, remote id and the supported fields free *)
InitHook ==
    /\ \E d1, d2 \in Descriptions, p1, p2 \in Opt({"H"}), t1, t2 \in TagLists,
          s1, s2 \in Statuses, id1, id2 \in Opt(RemoteIds) :
          /\ old = [Bare(d1) EXCEPT !.priority = p1, !.tags = t1, !.status = s1,
                                    !.todoist = id1]
          /\ new = [Bare(d2) EXCEPT !.priority = p2, !.tags = t2, !.status = s2,
                                    !.todoist = id2]
    /\ store \in {[n \in {"Inbox"} |-> ProjectId(n)]}
    /\ Start

(* Due-Date Conversion: any instant in any zone *)
InitDue ==
    /\ \E date \in Datetimes, timezone \in Timezones :
          new = [Bare(FirstDescription) EXCEPT !.due = Some(date), !.timezone = timezone]
    /\ old = new
    /\ store \in {[n \in {"Inbox"} |-> ProjectId(n)]}
    /\ Start

Init == InitAdd \/ InitUpdate \/ InitMove \/ InitStatus \/ InitHook \/ InitDue

----------------------------------------------------------------------------
(* One action per operation: the caller invokes it on the pair it holds *)

Call(name, outcome) ==
    /\ pc = "input"
    /\ pc' = "done"
    /\ op' = name
    /\ result' = outcome
    /\ UNCHANGED <<old, new, store>>

DateFromTaskwarrior ==
    /\ new.due # None
    /\ Call("date_from_taskwarrior",
            [raised |-> FALSE, ops |-> <<date_from_taskwarrior(new.due[1], new.timezone)>>])

AddItem == Call("add_item", add_item(new, store))

UpdateItem == Call("update_item", update_item(old, new, store))

MoveItem == Call("move_item", move_item(old, new, store))

DeleteItem == Call("delete_item", delete_item(old, new, store))

CompleteItem == Call("complete_item", complete_item(old, new, store))

UncompleteItem == Call("uncomplete_item", uncomplete_item(old, new, store))

OnModify ==
    \E res_id \in AssignedIds, localzone \in Timezones :
        Call("on_modify", on_modify(old, new, res_id, localzone))

Next ==
    \/ DateFromTaskwarrior
    \/ AddItem
    \/ UpdateItem
    \/ MoveItem
    \/ DeleteItem
    \/ CompleteItem
    \/ UncompleteItem
    \/ OnModify

Spec == Init /\ [][Next]_vars

NextDue == DateFromTaskwarrior

SpecDue == InitDue /\ [][NextDue]_vars

NextAdd == AddItem

SpecAdd == InitAdd /\ [][NextAdd]_vars

NextUpdate == UpdateItem

SpecUpdate == InitUpdate /\ [][NextUpdate]_vars

NextMove == MoveItem

SpecMove == InitMove /\ [][NextMove]_vars

NextStatus == DeleteItem \/ CompleteItem \/ UncompleteItem

SpecStatus == InitStatus /\ [][NextStatus]_vars

NextHook == OnModify

SpecHook == InitHook /\ [][NextHook]_vars

----------------------------------------------------------------------------
(* Properties *)

Done(name) == pc = "done" /\ op = name

(* the value of a field, present or absent; description and tag list are *)
(* always present                                                         *)
Field(task, attr) ==
    IF attr \in {"description", "tags"} THEN Some(task[attr]) ELSE task[attr]

(* the Diff Rules as the specification words them *)
WasUpdated(attr) ==
    /\ Field(new, attr) # None
    /\ Field(old, attr) = None \/ Field(old, attr) # Field(new, attr)

WasRemoved(attr) == Field(old, attr) # None /\ Field(new, attr) = None

Touched(attr) == WasUpdated(attr) \/ WasRemoved(attr)

OpTypes == {result.ops[i].type : i \in 1..Len(result.ops)}

(* C1: move_item returns an empty list whenever the collection was *)
(* neither updated nor removed.                                     *)
C1_MoveNothingWhenUntouched ==
    (Done("move_item") /\ ~Touched("project"))
        => (~result.raised /\ result.ops = <<>>)

(* C2: with no remote id in the after-snapshot a targeting builder returns *)
(* no operation (it raises instead), so every emitted item_update,        *)
(* item_move, item_delete, item_complete or item_uncomplete carries the   *)
(* real remote id of the after-snapshot in args.id.                       *)
TargetingBuilders ==
    {"update_item", "move_item", "delete_item", "complete_item", "uncomplete_item"}

TargetingTypes ==
    {"item_update", "item_move", "item_delete", "item_complete", "item_uncomplete"}

C2_TargetIdIsReal ==
    (pc = "done" /\ op \in TargetingBuilders)
        => /\ new.todoist = None => (OpTypes \cap TargetingTypes = {})
           /\ \A i \in 1..Len(result.ops) :
                 result.ops[i].type \in TargetingTypes
                     => (new.todoist # None /\ result.ops[i].args.id = new.todoist[1])

(* C3: a collection updated to an unresolved name yields project_add with *)
(* a fresh temp_id T, then item_move with project_id T; a resolved name   *)
(* yields exactly one item_move with the resolved id; a reference to a    *)
(* temp_id always follows the operation that creates it.                  *)
CreatedBefore(i) ==
    {result.ops[j].temp_id : j \in {k \in 1..(i - 1) : "temp_id" \in DOMAIN result.ops[k]}}

CreatedAnywhere ==
    {result.ops[j].temp_id :
        j \in {k \in 1..Len(result.ops) : "temp_id" \in DOMAIN result.ops[k]}}

C3_ProjectAddPrecedesMove ==
    Done("move_item") =>
        /\ (WasUpdated("project") /\ new.project[1] \notin DOMAIN store)
              => /\ ~result.raised
                 /\ Len(result.ops) = 2
                 /\ result.ops[1].type = "project_add"
                 /\ result.ops[1].args.name = new.project[1]
                 /\ "temp_id" \in DOMAIN result.ops[1]
                 /\ result.ops[1].temp_id \notin
                        {result.ops[1].uuid, result.ops[2].uuid} \cup
                        {store[n] : n \in DOMAIN store}
                 /\ result.ops[2].type = "item_move"
                 /\ result.ops[2].args.project_id = result.ops[1].temp_id
        /\ (WasUpdated("project") /\ new.project[1] \in DOMAIN store)
              => /\ ~result.raised
                 /\ Len(result.ops) = 1
                 /\ result.ops[1].type = "item_move"
                 /\ result.ops[1].args.project_id = store[new.project[1]]
        /\ \A i \in 1..Len(result.ops) :
              ("project_id" \in DOMAIN result.ops[i].args
                 /\ result.ops[i].args.project_id \in CreatedAnywhere)
                  => result.ops[i].args.project_id \in CreatedBefore(i)

C3_Witness ==
    /\ Done("move_item")
    /\ old.project = Some("Work")
    /\ new.project = Some("Travel")
    /\ "Travel" \notin DOMAIN store
    /\ Len(result.ops) = 2

(* C4: a removed collection yields one item_move to the resolved Inbox; *)
(* with no Inbox in the store move_item raises and returns nothing.     *)
C4_RemovedGoesToInboxOrRaises ==
    (Done("move_item") /\ WasRemoved("project")) =>
        IF "Inbox" \in DOMAIN store
        THEN /\ ~result.raised
             /\ Len(result.ops) = 1
             /\ result.ops[1].type = "item_move"
             /\ result.ops[1].args.project_id = store["Inbox"]
        ELSE result.raised /\ result.ops = <<>>

C4_Witness ==
    /\ Done("move_item")
    /\ WasRemoved("project")
    /\ "Inbox" \notin DOMAIN store
    /\ result.raised

(* C5: update_item returns nothing iff none of description, due, priority, *)
(* labels was updated or removed; otherwise one item_update whose keys,    *)
(* apart from id, are exactly the touched fields.                          *)
UpdateKeys == {"content", "due", "priority", "labels"}

AttrOf(key) ==
    CASE key = "content" -> "description"
      [] key = "due" -> "due"
      [] key = "priority" -> "priority"
      [] key = "labels" -> "tags"

TouchedKeys == {k \in UpdateKeys : Touched(AttrOf(k))}

C6_RemovedFieldsCarrySentinel ==
    Done("update_item") =>
        /\ WasRemoved("due")
              => /\ Len(result.ops) = 1
                 /\ "due" \in DOMAIN result.ops[1].args
                 /\ result.ops[1].args.due = None
        /\ WasRemoved("priority")
              => /\ Len(result.ops) = 1
                 /\ "priority" \in DOMAIN result.ops[1].args
                 /\ result.ops[1].args.priority = 1
        /\ WasUpdated("due")
              => /\ Len(result.ops) = 1
                 /\ "due" \in DOMAIN result.ops[1].args
                 /\ result.ops[1].args.due # None
                 /\ result.ops[1].args.due =
                        Some(date_from_taskwarrior(new.due[1], new.timezone))
        /\ WasUpdated("priority")
              => /\ Len(result.ops) = 1
                 /\ "priority" \in DOMAIN result.ops[1].args
                 /\ result.ops[1].args.priority # 1
                 /\ result.ops[1].args.priority = to_todoist(new.priority[1])

C6_Witness ==
    /\ Done("update_item")
    /\ WasRemoved("due")
    /\ WasRemoved("priority")
    /\ result.ops[1].args.due = None
    /\ result.ops[1].args.priority = 1

(* C7: at most one of delete_item, complete_item, uncomplete_item returns *)
(* a non-empty list on the same pair of snapshots.                        *)
Detectors == {"delete_item", "complete_item", "uncomplete_item"}

DetectorOps(name) ==
    IF op = name THEN result.ops
    ELSE CASE name = "delete_item" -> delete_item(old, new, store).ops
           [] name = "complete_item" -> complete_item(old, new, store).ops
           [] name = "uncomplete_item" -> uncomplete_item(old, new, store).ops

C7_DetectorsMutuallyExclusive ==
    (pc = "done" /\ op \in Detectors)
        => Cardinality({d \in Detectors : DetectorOps(d) # <<>>}) <= 1

(* C8: add_item returns exactly one item_add with distinct temp_id and  *)
(* uuid and the description; project_id iff the collection resolves, no *)
(* project_add; due, priority, labels iff present / non-empty.          *)
C8_AddItemShape ==
    Done("add_item") =>
        /\ ~result.raised
        /\ Len(result.ops) = 1
        /\ result.ops[1].type = "item_add"
        /\ {"temp_id", "uuid"} \subseteq DOMAIN result.ops[1]
        /\ result.ops[1].temp_id # result.ops[1].uuid
        /\ "content" \in DOMAIN result.ops[1].args
        /\ result.ops[1].args.content = new.description
        /\ ("project_id" \in DOMAIN result.ops[1].args)
              <=> (new.project # None /\ new.project[1] \in DOMAIN store)
        /\ ("project_id" \in DOMAIN result.ops[1].args)
              => result.ops[1].args.project_id = store[new.project[1]]
        /\ "project_add" \notin OpTypes
        /\ ("due" \in DOMAIN result.ops[1].args) <=> (new.due # None)
        /\ ("priority" \in DOMAIN result.ops[1].args) <=> (new.priority # None)
        /\ ("labels" \in DOMAIN result.ops[1].args) <=> (new.tags # <<>>)

C8_Witness ==
    /\ Done("add_item")
    /\ new.project = Some("Travel")
    /\ "Travel" \notin DOMAIN store
    /\ new.due # None
    /\ new.priority = None
    /\ new.tags = <<>>
    /\ DOMAIN result.ops[1].args = {"content", "due"}

(* C9: the date-only form is emitted iff the due instant, in the owning *)
(* timezone, has hour, minute and second all zero.                      *)
LocalDue == astimezone(new.due[1], new.timezone)

C9_DateOnlyIffExactMidnight ==
    Done("date_from_taskwarrior") =>
        /\ (result.ops[1].date.form = "date")
              <=> (LocalDue.hour = 0 /\ LocalDue.minute = 0 /\ LocalDue.second = 0)
        /\ result.ops[1].is_recurring = FALSE
        /\ result.ops[1].timezone = new.timezone

(* C10: on_modify makes at most one API call, chosen by the after-snapshot, *)
(* and never calls add_task for a task whose new status is DELETED.         *)
Changed == check_supported_todoist_fields(old, new)

C10_HookCallsByAfterSnapshot ==
    Done("on_modify") =>
        /\ Len(result.ops) <= 1
        /\ "delete_task" \in OpTypes => (new.status = "DELETED" /\ new.todoist # None)
        /\ "update_task" \in OpTypes => (Changed /\ new.todoist # None)
        /\ "add_task" \in OpTypes => (Changed /\ new.todoist = None)
        /\ "add_task" \in OpTypes => new.status # "DELETED"

====
